---- MODULE Spec2Model ----
(***************************************************************************)
(* Model of the operator side of the DKG ceremony envelope protocol:       *)
(* the ceremony handlers Init, Reshare and Resign, the ceremony proof      *)
(* validation, and the JSON encoding of Proof, SignedProof and Operator.   *)
(*                                                                         *)
(* A handler runs to completion within one call, so each handler is an     *)
(* operator that maps its inputs to an outcome                             *)
(*     [err, results, log]                                                 *)
(* where log is the sequence of steps the handler performed, in order.     *)
(* A run-time panic is the outcome whose err is a Panic value.             *)
(***************************************************************************)
EXTENDS Integers, Sequences, FiniteSets, TLC

VARIABLES call, out, dst, wire

vars == <<call, out, dst, wire>>

\* ------------------------------------------------------------------ bounds
MaxBatch == 2
MaxOwnerBytes == 21
MaxAddrLen == 3

\* ------------------------------------------------------------- byte values
OwnerLen == 20

Nil == "nil"

HexDigits == <<"0", "1", "2", "3", "4", "5", "6", "7", "8", "9", "a", "b", "c", "d", "e", "f">>

UpperDigits == <<"A", "B", "C", "D", "E", "F">>

\* value of a hex digit, 16 for any other character (reverseHexTable)
HexVal(c) ==
    IF \E i \in 1..16 : HexDigits[i] = c
    THEN (CHOOSE i \in 1..16 : HexDigits[i] = c) - 1
    ELSE IF \E i \in 1..6 : UpperDigits[i] = c
         THEN (CHOOSE i \in 1..6 : UpperDigits[i] = c) + 9
         ELSE 16

RECURSIVE EncodeToString(_)
EncodeToString(bs) ==
    IF bs = <<>> THEN <<>>
    ELSE <<HexDigits[(Head(bs) \div 16) + 1], HexDigits[(Head(bs) % 16) + 1]>>
         \o EncodeToString(Tail(bs))

\* hex.DecodeString: the bytes decoded before the error, and the error
RECURSIVE DecodeString(_)
DecodeString(s) ==
    IF s = <<>> THEN [bytes |-> <<>>, err |-> Nil]
    ELSE IF Len(s) = 1
         THEN [bytes |-> <<>>,
               err |-> IF HexVal(s[1]) > 15 THEN "InvalidByteError" ELSE "ErrLength"]
         ELSE IF HexVal(s[1]) > 15 \/ HexVal(s[2]) > 15
              THEN [bytes |-> <<>>, err |-> "InvalidByteError"]
              ELSE LET rest == DecodeString(SubSeq(s, 3, Len(s)))
                   IN [bytes |-> <<HexVal(s[1]) * 16 + HexVal(s[2])>> \o rest.bytes,
                       err |-> rest.err]

\* strings.TrimRight(s, "/")
RECURSIVE TrimRight(_)
TrimRight(s) ==
    IF s # <<>> /\ s[Len(s)] = "/" THEN TrimRight(SubSeq(s, 1, Len(s) - 1)) ELSE s

Repeat(b, n) == [i \in 1..n |-> b]

\* ------------------------------------------------------------------- keys
\* An RSA key pair is named by an index; the public key bytes of pair i are
\* KeyBytes(i) and the private key is the index itself.
KeyIds == 1..4

KeyBytes(i) == <<"k", HexDigits[i + 1]>>

BadKeyBytes == <<"x">>

ParseRSAPublicKey(pkBytes) ==
    IF \E i \in KeyIds : KeyBytes(i) = pkBytes
    THEN [pk |-> CHOOSE i \in KeyIds : KeyBytes(i) = pkBytes, err |-> Nil]
    ELSE [pk |-> 0, err |-> "DecodeError"]

SignRSA(sk, msg) == [key |-> sk, msg |-> msg]

VerifyRSA(pk, msg, sig) ==
    IF sig = [key |-> pk, msg |-> msg] THEN Nil ELSE "InvalidSignature"

Encrypt(pk, plain) == [to |-> pk, plain |-> plain]

\* ------------------------------------------------------ canonical encoder
MarshalSSZ(x) == <<"ssz", x>>

HashTreeRoot(x) == <<"root", x>>

GetBulkMessageHash(msgs) ==
    IF msgs = <<>> THEN [hash |-> <<"bulk", <<>>>>, err |-> "EmptyBatch"]
    ELSE [hash |-> <<"bulk", [i \in 1..Len(msgs) |-> MarshalSSZ(msgs[i])]>>, err |-> Nil]

GetReqIDFromMsg(msg) == [id |-> <<"reqid", HashTreeRoot(msg)>>, err |-> Nil]

\* ------------------------------------------------------------- data model
Owner(b) == Repeat(b, OwnerLen)

Owners == {Owner(170), Owner(187)}

OtherOwner(o) == CHOOSE x \in Owners : x # o

Op(i) == [ID |-> i, PubKey |-> KeyBytes(i), Addr |-> <<"h">>]

NilShare == "nilshare"

Shares == {"share1"}

SharePublicKey(share) == <<"sharepub", share>>

SignByte(share, root) == <<"blssig", share, root>>

\* ----------------------------------------------------------- proof checks
VerifyCeremonyProof(pkBytes, proof) ==
    LET hash == HashTreeRoot(proof.Proof)
        parsed == ParseRSAPublicKey(pkBytes)
    IN IF parsed.err # Nil THEN parsed.err
       ELSE VerifyRSA(parsed.pk, hash, proof.Signature)

\* variant: the validator public key of the proof is not compared
ValidateCeremonyProofNoPK(ownerAddress, validatorPK, operator, signedProof) ==
    IF ownerAddress # signedProof.Proof.Owner THEN "invalid owner address"
    ELSE VerifyCeremonyProof(operator.PubKey, signedProof)

\* variant: the signature is verified before the owner and the validator
\* public key are compared
ValidateCeremonyProofSignatureFirst(ownerAddress, validatorPK, operator, signedProof) ==
    LET verified == VerifyCeremonyProof(operator.PubKey, signedProof)
    IN IF verified # Nil THEN verified
       ELSE IF ownerAddress # signedProof.Proof.Owner THEN "invalid owner address"
       ELSE IF validatorPK # signedProof.Proof.ValidatorPubKey
            THEN "invalid proof validator pubkey"
            ELSE Nil

ValidateCeremonyProof(ownerAddress, validatorPK, operator, signedProof) ==
    IF ownerAddress # signedProof.Proof.Owner THEN "invalid owner address"
    ELSE IF validatorPK # signedProof.Proof.ValidatorPubKey
         THEN "invalid proof validator pubkey"
         ELSE VerifyCeremonyProof(operator.PubKey, signedProof)


\* ------------------------------------------------------ ceremony messages
ValidatorPK == <<"v", "1">>

OtherValidatorPK == <<"v", "2">>

KnownForks == {"mainnet"}

Forks == KnownForks \cup {"unknown"}

DepositDataRootForFork(fork, validatorPK, withdrawalCredentials, amount) ==
    IF fork \in KnownForks
    THEN [root |-> <<"deposit", fork, validatorPK, withdrawalCredentials, amount>>, err |-> Nil]
    ELSE [root |-> <<>>, err |-> "unknown fork"]

PartialNonceRoot(owner, nonce) == <<"nonce", owner, nonce>>

\* the proof an operator holds from the previous ceremony
CeremonyProof(operator, validatorPK, owner) ==
    [ValidatorPubKey |-> validatorPK,
     EncryptedShare |-> Encrypt(operator.ID, "share1"),
     SharePubKey |-> SharePublicKey("share1"),
     Owner |-> owner]

CeremonySignedProof(operator, validatorPK, owner, signer) ==
    LET proof == CeremonyProof(operator, validatorPK, owner)
    IN [Proof |-> proof, Signature |-> SignRSA(signer, HashTreeRoot(proof))]

\* linear scan; position counted from 0, -1 when the ID is absent
FindOperatorPosition(operators, id) ==
    IF \E i \in 1..Len(operators) : operators[i].ID = id
    THEN (CHOOSE i \in 1..Len(operators) :
              /\ operators[i].ID = id
              /\ \A j \in 1..(i - 1) : operators[j].ID # id) - 1
    ELSE -1

ValidateReshareMessage(reshare, operator, proof) ==
    ValidateCeremonyProof(reshare.Owner, reshare.ValidatorPubKey, operator, proof)

ValidateResignMessage(resign, operator, proof) ==
    ValidateCeremonyProof(resign.Owner, resign.ValidatorPubKey, operator, proof)

UniqueIDs(operators) ==
    \A i, j \in 1..Len(operators) : operators[i].ID = operators[j].ID => i = j

MinOperators == 4

ValidateInitMessage(init) ==
    IF UniqueIDs(init.Operators) /\ Len(init.Operators) >= MinOperators
    THEN Nil
    ELSE "InvalidInitMessage"

\* ------------------------------------------------------------ the oracle
OwnerSign(owner, hash) == [signer |-> owner, hash |-> hash, flipped |-> FALSE]

VerifySignedMessageByOwner(client, owner, hash, signature) ==
    IF client = "down" THEN "OracleUnavailable"
    ELSE IF signature = OwnerSign(owner, hash) THEN Nil
         ELSE "UnauthorizedBatch"

\* ---------------------------------------------------------------- results
Ev(name, i, arg) == [ev |-> name, i |-> i, arg |-> arg]

Outcome(err, results, log) == [err |-> err, results |-> results, log |-> log]

BuildResult(operatorID, requestID, share, sk, validatorPK, owner, withdrawalCredentials, fork, nonce, amount) ==
    LET deposit == DepositDataRootForFork(fork, validatorPK, withdrawalCredentials, amount)
        proof == [ValidatorPubKey |-> validatorPK,
                  EncryptedShare |-> Encrypt(sk, share),
                  SharePubKey |-> SharePublicKey(share),
                  Owner |-> owner]
    IN IF deposit.err # Nil THEN [result |-> Nil, err |-> deposit.err]
       ELSE IF share = NilShare THEN [result |-> Nil, err |-> "PanicNilDereference"]
       ELSE [result |->
                [OperatorID |-> operatorID,
                 RequestID |-> requestID,
                 DepositPartialSignature |-> SignByte(share, deposit.root),
                 OwnerNoncePartialSignature |-> SignByte(share, PartialNonceRoot(owner, nonce)),
                 SignedProof |-> [Proof |-> proof,
                                  Signature |-> SignRSA(sk, HashTreeRoot(proof))]],
             err |-> Nil]

\* variant: the error is returned together with the results collected so far
AbortKeepingResults(err, results, log) == Outcome(err, results, log)

\* `return nil, err`: the results collected so far are dropped
Abort(err, results, log) == Outcome(err, <<>>, log)

\* ------------------------------------------------------------------- Init
\* The ceremony that yields the share and the validator public key is not
\* part of the source (the variables are declared and the ceremony is a
\* comment); `share` is what that step leaves in the variable, NilShare when
\* it leaves the declared nil pointer.
OperatorInit(op, init, requestID, sk, share) ==
    LET valid == ValidateInitMessage(init)
        l1 == <<Ev("Validate", 1, valid)>>
        validatorPK == ValidatorPK
        deposit == DepositDataRootForFork(init.Fork, validatorPK, init.WithdrawalCredentials, init.Amount)
        l2 == l1 \o <<Ev("DepositRoot", 1, deposit.err)>>
        proof == [ValidatorPubKey |-> validatorPK,
                  EncryptedShare |-> Encrypt(sk, share),
                  SharePubKey |-> SharePublicKey(share),
                  Owner |-> init.Owner]
        byts == MarshalSSZ(proof)
        proofSig == SignRSA(sk, byts)
        l3 == l2 \o <<Ev("SignDeposit", 1, Nil), Ev("Encrypt", 1, Nil), Ev("SignProof", 1, Nil)>>
    IN IF valid # Nil THEN Abort(valid, <<>>, l1)
       ELSE IF deposit.err # Nil THEN Abort(deposit.err, <<>>, l2)
       ELSE IF share = NilShare THEN Abort("PanicNilDereference", <<>>, l2)
       ELSE Outcome(Nil,
                    <<[OperatorID |-> op.ID,
                       RequestID |-> requestID,
                       DepositPartialSignature |-> SignByte(share, deposit.root),
                       OwnerNoncePartialSignature |->
                           SignByte(share, PartialNonceRoot(init.Owner, init.Nonce)),
                       SignedProof |-> [Proof |-> proof, Signature |-> proofSig]]>>,
                    l3)

\* ---------------------------------------------------- batch authorization
\* variant: the oracle is consulted and its rejection is not returned
AuthorizeIgnoringVerdict(client, msgs, owner, signature) ==
    LET bulk == GetBulkMessageHash(msgs)
        l1 == <<Ev("BulkHash", 0, bulk.err)>>
    IN IF bulk.err # Nil THEN [err |-> bulk.err, log |-> l1]
       ELSE LET verdict == VerifySignedMessageByOwner(client, owner, bulk.hash, signature)
            IN [err |-> IF verdict = "UnauthorizedBatch" THEN Nil ELSE verdict,
                log |-> l1 \o <<Ev("Oracle", 0, [owner |-> owner, hash |-> bulk.hash,
                                                   signature |-> signature,
                                                   verdict |-> verdict])>>]

\* variant: every failure of the oracle is reported as a rejection
AuthorizeGenericError(client, msgs, owner, signature) ==
    LET bulk == GetBulkMessageHash(msgs)
        l1 == <<Ev("BulkHash", 0, bulk.err)>>
    IN IF bulk.err # Nil THEN [err |-> bulk.err, log |-> l1]
       ELSE LET verdict == VerifySignedMessageByOwner(client, owner, bulk.hash, signature)
            IN [err |-> IF verdict = Nil THEN Nil ELSE "UnauthorizedBatch",
                log |-> l1 \o <<Ev("Oracle", 0, [owner |-> owner, hash |-> bulk.hash,
                                                   signature |-> signature,
                                                   verdict |-> verdict])>>]

\* bulk hash of the whole batch, then the owner-signature oracle
Authorize(client, msgs, owner, signature) ==
    LET bulk == GetBulkMessageHash(msgs)
        l1 == <<Ev("BulkHash", 0, bulk.err)>>
    IN IF bulk.err # Nil THEN [err |-> bulk.err, log |-> l1]
       ELSE LET verdict == VerifySignedMessageByOwner(client, owner, bulk.hash, signature)
            IN [err |-> verdict,
                log |-> l1 \o <<Ev("Oracle", 0, [owner |-> owner, hash |-> bulk.hash,
                                                   signature |-> signature,
                                                   verdict |-> verdict])>>]

\* ---------------------------------------------------------------- Reshare

\* variant: the proof of an old operator is not validated
ReshareMessageStepNoValidation(op, reshareMsg, i, sk, share) ==
    LET position == FindOperatorPosition(reshareMsg.Reshare.OldOperators, op.ID)
        l1 == <<Ev("Find", i, position)>>
        reqID == GetReqIDFromMsg(reshareMsg)
        l3 == l1 \o <<Ev("ReqID", i, reqID.err)>>
        built == BuildResult(op.ID, reqID.id, share, sk,
                             reshareMsg.Reshare.ValidatorPubKey,
                             reshareMsg.Reshare.Owner,
                             reshareMsg.Reshare.WithdrawalCredentials,
                             reshareMsg.Reshare.Fork,
                             reshareMsg.Reshare.Nonce,
                             reshareMsg.Reshare.Amount)
        l4 == l3 \o <<Ev("Build", i, built.err)>>
    IN IF reqID.err # Nil THEN [err |-> reqID.err, result |-> Nil, log |-> l3]
       ELSE [err |-> built.err, result |-> built.result, log |-> l4]

\* one pass of the loop body for message i: [err, result, log]
ReshareMessageStep(op, reshareMsg, i, sk, share) ==
    LET position == FindOperatorPosition(reshareMsg.Reshare.OldOperators, op.ID)
        l1 == <<Ev("Find", i, position)>>
        inRange == position + 1 <= Len(reshareMsg.Proofs)
        valid == IF position = -1 THEN Nil
                 ELSE ValidateReshareMessage(reshareMsg.Reshare, op, reshareMsg.Proofs[position + 1])
        l2 == IF position = -1 THEN l1 ELSE l1 \o <<Ev("Validate", i, valid)>>
        reqID == GetReqIDFromMsg(reshareMsg)
        l3 == l2 \o <<Ev("ReqID", i, reqID.err)>>
        built == BuildResult(op.ID, reqID.id, share, sk,
                             reshareMsg.Reshare.ValidatorPubKey,
                             reshareMsg.Reshare.Owner,
                             reshareMsg.Reshare.WithdrawalCredentials,
                             reshareMsg.Reshare.Fork,
                             reshareMsg.Reshare.Nonce,
                             reshareMsg.Reshare.Amount)
        l4 == l3 \o <<Ev("Build", i, built.err)>>
    IN IF position # -1 /\ ~inRange
       THEN [err |-> "PanicIndexOutOfRange", result |-> Nil, log |-> l1]
       ELSE IF valid # Nil THEN [err |-> valid, result |-> Nil, log |-> l2]
       ELSE IF reqID.err # Nil THEN [err |-> reqID.err, result |-> Nil, log |-> l3]
       ELSE [err |-> built.err, result |-> built.result, log |-> l4]

RECURSIVE ReshareLoop(_, _, _, _, _, _, _)
ReshareLoop(op, msgs, i, sk, share, results, log) ==
    IF i > Len(msgs) THEN Outcome(Nil, results, log)
    ELSE LET step == ReshareMessageStep(op, msgs[i], i, sk, share)
         IN IF step.err # Nil THEN Abort(step.err, results, log \o step.log)
            ELSE ReshareLoop(op, msgs, i + 1, sk, share,
                             Append(results, step.result), log \o step.log)

\* variant: the batch is not checked for being empty
ReshareNoEmptyCheck(op, signedReshare, sk, client, share) ==
    LET auth == Authorize(client, signedReshare.Messages,
                          signedReshare.Messages[1].Reshare.Owner,
                          signedReshare.Signature)
    IN IF auth.err # Nil THEN Abort(auth.err, <<>>, auth.log)
       ELSE ReshareLoop(op, signedReshare.Messages, 1, sk, share, <<>>, auth.log)

Reshare(op, signedReshare, sk, client, share) ==
    IF Len(signedReshare.Messages) = 0 THEN Abort("no reshare messages", <<>>, <<>>)
    ELSE LET auth == Authorize(client, signedReshare.Messages,
                               signedReshare.Messages[1].Reshare.Owner,
                               signedReshare.Signature)
         IN IF auth.err # Nil THEN Abort(auth.err, <<>>, auth.log)
            ELSE ReshareLoop(op, signedReshare.Messages, 1, sk, share, <<>>, auth.log)

\* ----------------------------------------------------------------- Resign
\* variant: an operator absent from the sequence is skipped, as in Reshare
ResignMessageStepSkippingAbsent(op, resignMsg, i, sk, share) ==
    LET position == FindOperatorPosition(resignMsg.Operators, op.ID)
        l1 == <<Ev("Find", i, position)>>
        inRange == position + 1 <= Len(resignMsg.Proofs)
        valid == IF position = -1 THEN Nil
                 ELSE ValidateResignMessage(resignMsg.Resign, op, resignMsg.Proofs[position + 1])
        l2 == IF position = -1 THEN l1 ELSE l1 \o <<Ev("Validate", i, valid)>>
        reqID == GetReqIDFromMsg(resignMsg)
        l3 == l2 \o <<Ev("ReqID", i, reqID.err)>>
        built == BuildResult(op.ID, reqID.id, share, sk,
                             resignMsg.Resign.ValidatorPubKey,
                             resignMsg.Resign.Owner,
                             resignMsg.Resign.WithdrawalCredentials,
                             resignMsg.Resign.Fork,
                             resignMsg.Resign.Nonce,
                             resignMsg.Resign.Amount)
        l4 == l3 \o <<Ev("Build", i, built.err)>>
    IN IF position # -1 /\ ~inRange
       THEN [err |-> "PanicIndexOutOfRange", result |-> Nil, log |-> l1]
       ELSE IF valid # Nil THEN [err |-> valid, result |-> Nil, log |-> l2]
       ELSE IF reqID.err # Nil THEN [err |-> reqID.err, result |-> Nil, log |-> l3]
       ELSE [err |-> built.err, result |-> built.result, log |-> l4]

\* variant: the request ID is derived from the message and the operator's ID
ResignMessageStepOperatorReqID(op, resignMsg, i, sk, share) ==
    LET position == FindOperatorPosition(resignMsg.Operators, op.ID)
        l1 == <<Ev("Find", i, position)>>
        inRange == position + 1 <= Len(resignMsg.Proofs)
        valid == ValidateResignMessage(resignMsg.Resign, op, resignMsg.Proofs[position + 1])
        l2 == l1 \o <<Ev("Validate", i, valid)>>
        reqID == GetReqIDFromMsg(<<resignMsg, op.ID>>)
        l3 == l2 \o <<Ev("ReqID", i, reqID.err)>>
        built == BuildResult(op.ID, reqID.id, share, sk,
                             resignMsg.Resign.ValidatorPubKey,
                             resignMsg.Resign.Owner,
                             resignMsg.Resign.WithdrawalCredentials,
                             resignMsg.Resign.Fork,
                             resignMsg.Resign.Nonce,
                             resignMsg.Resign.Amount)
        l4 == l3 \o <<Ev("Build", i, built.err)>>
    IN IF position = -1
       THEN [err |-> "operator not found in the list", result |-> Nil, log |-> l1]
       ELSE IF ~inRange
       THEN [err |-> "PanicIndexOutOfRange", result |-> Nil, log |-> l1]
       ELSE IF valid # Nil THEN [err |-> valid, result |-> Nil, log |-> l2]
       ELSE IF reqID.err # Nil THEN [err |-> reqID.err, result |-> Nil, log |-> l3]
       ELSE [err |-> built.err, result |-> built.result, log |-> l4]

ResignMessageStep(op, resignMsg, i, sk, share) ==
    LET position == FindOperatorPosition(resignMsg.Operators, op.ID)
        l1 == <<Ev("Find", i, position)>>
        inRange == position + 1 <= Len(resignMsg.Proofs)
        valid == ValidateResignMessage(resignMsg.Resign, op, resignMsg.Proofs[position + 1])
        l2 == l1 \o <<Ev("Validate", i, valid)>>
        reqID == GetReqIDFromMsg(resignMsg)
        l3 == l2 \o <<Ev("ReqID", i, reqID.err)>>
        built == BuildResult(op.ID, reqID.id, share, sk,
                             resignMsg.Resign.ValidatorPubKey,
                             resignMsg.Resign.Owner,
                             resignMsg.Resign.WithdrawalCredentials,
                             resignMsg.Resign.Fork,
                             resignMsg.Resign.Nonce,
                             resignMsg.Resign.Amount)
        l4 == l3 \o <<Ev("Build", i, built.err)>>
    IN IF position = -1
       THEN [err |-> "operator not found in the list", result |-> Nil, log |-> l1]
       ELSE IF ~inRange
       THEN [err |-> "PanicIndexOutOfRange", result |-> Nil, log |-> l1]
       ELSE IF valid # Nil THEN [err |-> valid, result |-> Nil, log |-> l2]
       ELSE IF reqID.err # Nil THEN [err |-> reqID.err, result |-> Nil, log |-> l3]
       ELSE [err |-> built.err, result |-> built.result, log |-> l4]

\* variant: each Result is put in front of the ones collected so far
RECURSIVE ResignLoopPrepending(_, _, _, _, _, _, _)
ResignLoopPrepending(op, msgs, i, sk, share, results, log) ==
    IF i > Len(msgs) THEN Outcome(Nil, results, log)
    ELSE LET step == ResignMessageStep(op, msgs[i], i, sk, share)
         IN IF step.err # Nil THEN Abort(step.err, results, log \o step.log)
            ELSE ResignLoopPrepending(op, msgs, i + 1, sk, share,
                                      <<step.result>> \o results, log \o step.log)

RECURSIVE ResignLoop(_, _, _, _, _, _, _)
ResignLoop(op, msgs, i, sk, share, results, log) ==
    IF i > Len(msgs) THEN Outcome(Nil, results, log)
    ELSE LET step == ResignMessageStep(op, msgs[i], i, sk, share)
         IN IF step.err # Nil THEN Abort(step.err, results, log \o step.log)
            ELSE ResignLoop(op, msgs, i + 1, sk, share,
                            Append(results, step.result), log \o step.log)


\* variant: the messages are processed first and the batch is authorized last
ResignAuthorizingLast(op, signedResign, share, sk, client) ==
    IF Len(signedResign.Messages) = 0 THEN Abort("no reshare messages", <<>>, <<>>)
    ELSE LET done == ResignLoop(op, signedResign.Messages, 1, sk, share, <<>>, <<>>)
             auth == Authorize(client, signedResign.Messages,
                               signedResign.Messages[1].Resign.Owner,
                               signedResign.Signature)
         IN IF done.err # Nil THEN done
            ELSE IF auth.err # Nil THEN Abort(auth.err, <<>>, done.log \o auth.log)
            ELSE Outcome(Nil, done.results, done.log \o auth.log)

Resign(op, signedResign, share, sk, client) ==
    IF Len(signedResign.Messages) = 0 THEN Abort("no reshare messages", <<>>, <<>>)
    ELSE LET auth == Authorize(client, signedResign.Messages,
                               signedResign.Messages[1].Resign.Owner,
                               signedResign.Signature)
         IN IF auth.err # Nil THEN Abort(auth.err, <<>>, auth.log)
            ELSE ResignLoop(op, signedResign.Messages, 1, sk, share, <<>>, auth.log)

\* ------------------------------------------------------------------- JSON
\* A JSON text is [ok, obj]: ok is FALSE when json.Unmarshal rejects the
\* text itself, obj is the object it holds (field name |-> value).
NullJSON == [null |-> TRUE]

NilProof == [nil |-> TRUE]

BadJSON == [ok |-> FALSE, obj |-> NullJSON]

JSONText(obj) == [ok |-> TRUE, obj |-> obj]

ZeroProof ==
    [ValidatorPubKey |-> <<>>, EncryptedShare |-> <<>>, SharePubKey |-> <<>>,
     Owner |-> Repeat(0, OwnerLen)]

ZeroSignedProof == [Proof |-> NilProof, Signature |-> <<>>]

ZeroOperator == [ID |-> 0, PubKey |-> <<>>, Addr |-> <<>>]

\* variant: the two share fields are written under each other's name
ProofMarshalJSONSwapped(p) ==
    [validator |-> EncodeToString(p.ValidatorPubKey),
     encrypted_share |-> EncodeToString(p.SharePubKey),
     share_pub |-> EncodeToString(p.EncryptedShare),
     owner |-> EncodeToString(p.Owner)]

ProofMarshalJSON(p) ==
    [validator |-> EncodeToString(p.ValidatorPubKey),
     encrypted_share |-> EncodeToString(p.EncryptedShare),
     share_pub |-> EncodeToString(p.SharePubKey),
     owner |-> EncodeToString(p.Owner)]

\* copy(dst, src): as many bytes as the shorter of the two holds
Copy(dest, src) ==
    [i \in 1..Len(dest) |-> IF i <= Len(src) THEN src[i] ELSE dest[i]]

\* variant: only an owner that is too long is refused
OwnerLengthAtMost(owner) == Len(owner) <= OwnerLen

OwnerLengthAccepted(owner) == Len(owner) = OwnerLen

\* [p, err]: the destination as the call leaves it, and the error
ProofUnmarshalJSON(p, data) ==
    LET proof == data.obj
        validator == DecodeString(proof.validator)
        p1 == [p EXCEPT !.ValidatorPubKey = validator.bytes]
        encrypted == DecodeString(proof.encrypted_share)
        p2 == [p1 EXCEPT !.EncryptedShare = encrypted.bytes]
        sharePub == DecodeString(proof.share_pub)
        p3 == [p2 EXCEPT !.SharePubKey = sharePub.bytes]
        owner == DecodeString(proof.owner)
    IN IF ~data.ok THEN [p |-> p, err |-> "SyntaxError"]
       ELSE IF validator.err # Nil THEN [p |-> p1, err |-> validator.err]
       ELSE IF encrypted.err # Nil THEN [p |-> p2, err |-> encrypted.err]
       ELSE IF sharePub.err # Nil THEN [p |-> p3, err |-> sharePub.err]
       ELSE IF owner.err # Nil THEN [p |-> p3, err |-> owner.err]
       ELSE IF ~OwnerLengthAccepted(owner.bytes) THEN [p |-> p3, err |-> "invalid owner length"]
       ELSE [p |-> [p3 EXCEPT !.Owner = Copy(p3.Owner, owner.bytes)], err |-> Nil]

SignedProofMarshalJSON(sp) ==
    [proof |-> IF sp.Proof = NilProof THEN NullJSON ELSE ProofMarshalJSON(sp.Proof),
     signature |-> EncodeToString(sp.Signature)]

SignedProofUnmarshalJSON(sp, data) ==
    LET signedProof == data.obj
        inner == IF signedProof.proof = NullJSON
                 THEN [p |-> NilProof, err |-> Nil]
                 ELSE ProofUnmarshalJSON(ZeroProof, JSONText(signedProof.proof))
        signature == DecodeString(signedProof.signature)
    IN IF ~data.ok THEN [p |-> sp, err |-> "SyntaxError"]
       ELSE IF inner.err # Nil THEN [p |-> sp, err |-> inner.err]
       ELSE [p |-> [Proof |-> inner.p, Signature |-> signature.bytes],
             err |-> signature.err]

OperatorMarshalJSON(op) ==
    [ip |-> op.Addr, id |-> op.ID, public_key |-> op.PubKey]

OperatorUnmarshalJSON(op, data) ==
    LET operator == data.obj
    IN IF ~data.ok THEN [p |-> op, err |-> "SyntaxError"]
       ELSE [p |-> [ID |-> operator.id,
                    PubKey |-> operator.public_key,
                    Addr |-> TrimRight(operator.ip)],
             err |-> Nil]

\* ----------------------------------------------------------------- inputs
InvokingOperators == {Op(1), Op(2)}

BadKeyOperator == [ID |-> 1, PubKey |-> BadKeyBytes, Addr |-> <<"h">>]

Faults == {"none", "badOwner", "badSig", "short", "badFork"}

OperatorSets == {"A", "B"}

OldOperatorsOf(set) == IF set = "A" THEN <<Op(1), Op(2)>> ELSE <<Op(3), Op(4)>>

NewOperatorsOf(set) == IF set = "A" THEN <<Op(1), Op(3)>> ELSE <<Op(2), Op(4)>>

OtherKey(k) == (k % 4) + 1

\* the proofs attached to a message, aligned with `operators` unless short
ProofsFor(operators, owner, fault) ==
    LET full == [k \in 1..Len(operators) |->
                    CeremonySignedProof(
                        operators[k],
                        ValidatorPK,
                        IF fault = "badOwner" THEN OtherOwner(owner) ELSE owner,
                        IF fault = "badSig" THEN OtherKey(operators[k].ID)
                        ELSE operators[k].ID)]
    IN IF fault = "short" THEN SubSeq(full, 1, 1) ELSE full

CeremonyFields(owner, fault) ==
    [ValidatorPubKey |-> ValidatorPK,
     Fork |-> IF fault = "badFork" THEN "unknown" ELSE "mainnet",
     WithdrawalCredentials |-> "wc",
     Owner |-> owner,
     Nonce |-> 0,
     Amount |-> 32]

ReshareMessageOf(owner, set, fault) ==
    [Reshare |-> [ValidatorPubKey |-> ValidatorPK,
                  OldOperators |-> OldOperatorsOf(set),
                  NewOperators |-> NewOperatorsOf(set),
                  Fork |-> IF fault = "badFork" THEN "unknown" ELSE "mainnet",
                  WithdrawalCredentials |-> "wc",
                  Owner |-> owner,
                  Nonce |-> 0,
                  Amount |-> 32],
     Proofs |-> ProofsFor(OldOperatorsOf(set), owner, fault)]

ResignMessageOf(owner, set, fault) ==
    [Operators |-> OldOperatorsOf(set),
     Resign |-> CeremonyFields(owner, fault),
     Proofs |-> ProofsFor(OldOperatorsOf(set), owner, fault)]

ReshareMessages == {ReshareMessageOf(o, s, f) : o \in Owners, s \in OperatorSets, f \in Faults}

ResignMessages == {ResignMessageOf(o, s, f) : o \in Owners, s \in OperatorSets, f \in Faults}

Batches(messages) == UNION {[1..n -> messages] : n \in 0..MaxBatch}

Reverse(s) == [i \in 1..Len(s) |-> s[Len(s) + 1 - i]]

FirstOwner(msgs, kind) ==
    IF msgs = <<>> THEN Owner(170)
    ELSE IF kind = "Reshare" THEN msgs[1].Reshare.Owner ELSE msgs[1].Resign.Owner

\* what the caller attaches as the owner's signature, and the oracle's state
AuthCases == {<<"good", "up">>, <<"otherOwner", "up">>, <<"flipped", "up">>,
              <<"reordered", "up">>, <<"good", "down">>}

BatchSignature(msgs, kind, sigKind) ==
    LET owner == FirstOwner(msgs, kind)
        good == OwnerSign(owner, GetBulkMessageHash(msgs).hash)
    IN IF sigKind = "otherOwner" THEN OwnerSign(OtherOwner(owner), GetBulkMessageHash(msgs).hash)
       ELSE IF sigKind = "flipped" THEN [good EXCEPT !.flipped = TRUE]
       ELSE IF sigKind = "reordered" THEN OwnerSign(owner, GetBulkMessageHash(Reverse(msgs)).hash)
       ELSE good

InitOperatorsOf(kind) ==
    IF kind = "valid" THEN <<Op(1), Op(2), Op(3), Op(4)>>
    ELSE IF kind = "few" THEN <<Op(1), Op(2), Op(3)>>
    ELSE <<Op(1), Op(2), Op(2), Op(4)>>

InitMessageOf(owner, fork, kind) ==
    [Owner |-> owner, Nonce |-> 0, Fork |-> fork, Operators |-> InitOperatorsOf(kind),
     WithdrawalCredentials |-> "wc", Amount |-> 32]

\* ---------------------------------------------------------------- actions
Idle == Outcome(Nil, <<>>, <<>>)

Init ==
    /\ call = [kind |-> "none"]
    /\ out = Idle
    /\ dst = ZeroProof
    /\ wire = BadJSON

ValidateCeremonyProofCall ==
    /\ call.kind = "none"
    /\ \E ownerAddress \in Owners, validatorPK \in {ValidatorPK, OtherValidatorPK},
       operator \in InvokingOperators \cup {BadKeyOperator},
       proofOwner \in Owners, proofPK \in {ValidatorPK, OtherValidatorPK},
       signer \in {1, 2}, signed \in {"root", "ssz", "other"} :
        LET proof == CeremonyProof(Op(1), proofPK, proofOwner)
            payload == IF signed = "root" THEN HashTreeRoot(proof)
                       ELSE IF signed = "ssz" THEN MarshalSSZ(proof)
                       ELSE HashTreeRoot(CeremonyProof(Op(2), proofPK, proofOwner))
            signedProof == [Proof |-> proof, Signature |-> SignRSA(signer, payload)]
        IN /\ call' = [kind |-> "ValidateCeremonyProof", ownerAddress |-> ownerAddress,
                       validatorPK |-> validatorPK, operator |-> operator,
                       signedProof |-> signedProof]
           /\ out' = Outcome(ValidateCeremonyProof(ownerAddress, validatorPK, operator, signedProof),
                             <<>>, <<>>)
           /\ UNCHANGED <<dst, wire>>

InitCall ==
    /\ call.kind = "none"
    /\ \E op \in InvokingOperators, owner \in Owners, fork \in Forks,
       kind \in {"valid", "few", "dup"}, sk \in {1, 2}, share \in Shares \cup {NilShare} :
        LET init == InitMessageOf(owner, fork, kind)
        IN /\ call' = [kind |-> "Init", op |-> op, init |-> init, requestID |-> "req1",
                       sk |-> sk, share |-> share]
           /\ out' = OperatorInit(op, init, "req1", sk, share)
           /\ UNCHANGED <<dst, wire>>

ReshareCall ==
    /\ call.kind = "none"
    /\ \E op \in InvokingOperators, msgs \in Batches(ReshareMessages), auth \in AuthCases,
       share \in Shares \cup {NilShare} :
        \* the share left nil is tried on batches of at most one message
        /\ (share = NilShare) => (Len(msgs) <= 1)
        /\ LET signedReshare == [Messages |-> msgs,
                                 Signature |-> BatchSignature(msgs, "Reshare", auth[1])]
           IN /\ call' = [kind |-> "Reshare", op |-> op, signed |-> signedReshare,
                          sk |-> op.ID, client |-> auth[2], share |-> share]
              /\ out' = Reshare(op, signedReshare, op.ID, auth[2], share)
              /\ UNCHANGED <<dst, wire>>

ResignCall ==
    /\ call.kind = "none"
    /\ \E op \in InvokingOperators, msgs \in Batches(ResignMessages), auth \in AuthCases,
       share \in Shares :
        LET signedResign == [Messages |-> msgs,
                             Signature |-> BatchSignature(msgs, "Resign", auth[1])]
        IN /\ call' = [kind |-> "Resign", op |-> op, signed |-> signedResign,
                       sk |-> op.ID, client |-> auth[2], share |-> share]
           /\ out' = Resign(op, signedResign, share, op.ID, auth[2])
           /\ UNCHANGED <<dst, wire>>

\* the call has returned; no state is kept from one call to the next
Return ==
    /\ call.kind # "none"
    /\ call' = [kind |-> "none"]
    /\ out' = Idle
    /\ dst' = ZeroProof
    /\ wire' = BadJSON

Next ==
    \/ ValidateCeremonyProofCall
    \/ InitCall
    \/ ReshareCall
    \/ ResignCall
    \/ Return

Spec == Init /\ [][Next]_vars

\* ----------------------------------------------------------- JSON inputs
JSONProofs ==
    {[ValidatorPubKey |-> v, EncryptedShare |-> <<205>>, SharePubKey |-> <<239>>, Owner |-> o] :
        v \in {<<171>>, <<1, 35>>}, o \in Owners}

PopulatedProof ==
    [ValidatorPubKey |-> <<17>>, EncryptedShare |-> <<34>>, SharePubKey |-> <<51>>,
     Owner |-> Owner(68)]

ValidatorHexes == {<<"a", "b">>, <<"A", "B">>, <<"a">>, <<"a", "b", "z", "z">>}

OwnerHexes ==
    {EncodeToString(Repeat(170, n)) : n \in 0..MaxOwnerBytes}
    \cup {EncodeToString(Repeat(170, OwnerLen)) \o <<"a">>,
          EncodeToString(Repeat(170, OwnerLen - 1)) \o <<"z", "z">>}

ProofTexts ==
    {JSONText(ProofMarshalJSON(p)) : p \in JSONProofs}
    \cup {JSONText([validator |-> v, encrypted_share |-> e, share_pub |-> s, owner |-> o]) :
             v \in ValidatorHexes, e \in {<<"c", "d">>, <<"c">>},
             s \in {<<"e", "f">>, <<"z", "z">>}, o \in OwnerHexes}
    \cup {BadJSON}

JSONSignedProofs ==
    {[Proof |-> p, Signature |-> s] :
        p \in JSONProofs \cup {NilProof}, s \in {<<18>>, <<52, 86>>}}

PopulatedSignedProof == [Proof |-> PopulatedProof, Signature |-> <<119>>]

SignedProofTexts ==
    {JSONText(SignedProofMarshalJSON(sp)) : sp \in JSONSignedProofs}
    \cup {JSONText([proof |-> p.obj, signature |-> s]) :
             p \in {JSONText(ProofMarshalJSON(PopulatedProof)),
                    JSONText([ProofMarshalJSON(PopulatedProof) EXCEPT
                                 !.owner = EncodeToString(Repeat(170, OwnerLen - 1))]),
                    JSONText([ProofMarshalJSON(PopulatedProof) EXCEPT !.share_pub = <<"z", "z">>])},
             s \in {<<"1", "2">>, <<"1", "2", "3">>, <<"1", "2", "z", "z">>}}
    \cup {BadJSON}

Addrs == UNION {[1..n -> {"h", "/"}] : n \in 0..MaxAddrLen}

JSONOperators ==
    {[ID |-> i, PubKey |-> k, Addr |-> a] :
        i \in {1, 2}, k \in {KeyBytes(1), BadKeyBytes}, a \in Addrs}

PopulatedOperator == [ID |-> 9, PubKey |-> KeyBytes(3), Addr |-> <<"o", "l", "d">>]

OperatorTexts == {JSONText(OperatorMarshalJSON(op)) : op \in JSONOperators} \cup {BadJSON}

\* ----------------------------------------------------------- JSON actions
ProofMarshalJSONCall ==
    /\ call.kind = "none"
    /\ \E p \in JSONProofs :
        /\ call' = [kind |-> "ProofMarshalJSON", value |-> p]
        /\ wire' = JSONText(ProofMarshalJSON(p))
        /\ out' = Idle
        /\ UNCHANGED dst

ProofUnmarshalJSONCall ==
    /\ call.kind = "none"
    /\ \E p \in {ZeroProof, PopulatedProof}, data \in ProofTexts :
        LET got == ProofUnmarshalJSON(p, data)
        IN /\ call' = [kind |-> "ProofUnmarshalJSON", dst |-> p, data |-> data]
           /\ wire' = data
           /\ dst' = got.p
           /\ out' = Outcome(got.err, <<>>, <<>>)

SignedProofMarshalJSONCall ==
    /\ call.kind = "none"
    /\ \E sp \in JSONSignedProofs :
        /\ call' = [kind |-> "SignedProofMarshalJSON", value |-> sp]
        /\ wire' = JSONText(SignedProofMarshalJSON(sp))
        /\ out' = Idle
        /\ UNCHANGED dst

SignedProofUnmarshalJSONCall ==
    /\ call.kind = "none"
    /\ \E sp \in {ZeroSignedProof, PopulatedSignedProof}, data \in SignedProofTexts :
        LET got == SignedProofUnmarshalJSON(sp, data)
        IN /\ call' = [kind |-> "SignedProofUnmarshalJSON", dst |-> sp, data |-> data]
           /\ wire' = data
           /\ dst' = got.p
           /\ out' = Outcome(got.err, <<>>, <<>>)

OperatorMarshalJSONCall ==
    /\ call.kind = "none"
    /\ \E op \in JSONOperators :
        /\ call' = [kind |-> "OperatorMarshalJSON", value |-> op]
        /\ wire' = JSONText(OperatorMarshalJSON(op))
        /\ out' = Idle
        /\ UNCHANGED dst

OperatorUnmarshalJSONCall ==
    /\ call.kind = "none"
    /\ \E op \in {ZeroOperator, PopulatedOperator}, data \in OperatorTexts :
        LET got == OperatorUnmarshalJSON(op, data)
        IN /\ call' = [kind |-> "OperatorUnmarshalJSON", dst |-> op, data |-> data]
           /\ wire' = data
           /\ dst' = got.p
           /\ out' = Outcome(got.err, <<>>, <<>>)

NextJSON ==
    \/ ProofMarshalJSONCall
    \/ ProofUnmarshalJSONCall
    \/ SignedProofMarshalJSONCall
    \/ SignedProofUnmarshalJSONCall
    \/ OperatorMarshalJSONCall
    \/ OperatorUnmarshalJSONCall
    \/ Return

SpecJSON == Init /\ [][NextJSON]_vars

\* ------------------------------------------------- reading a batch call
IsBatchCall == call.kind \in {"Reshare", "Resign"}

BatchMessages == call.signed.Messages

MessageOwner(i) ==
    IF call.kind = "Reshare" THEN BatchMessages[i].Reshare.Owner
    ELSE BatchMessages[i].Resign.Owner

\* what processing message i alone does for the invoking operator
StepOf(i) ==
    IF call.kind = "Reshare"
    THEN ReshareMessageStep(call.op, BatchMessages[i], i, call.sk, call.share)
    ELSE ResignMessageStep(call.op, BatchMessages[i], i, call.sk, call.share)

Logged(name, i) == \E k \in 1..Len(out.log) : out.log[k].ev = name /\ out.log[k].i = i

\* the oracle answered `verdict` to the question the batch asks: the first
\* message's owner, the bulk hash of the messages in order, the signature
OracleAnswered(verdict) ==
    \E k \in 1..Len(out.log) :
        /\ out.log[k].ev = "Oracle"
        /\ out.log[k].arg.owner = MessageOwner(1)
        /\ out.log[k].arg.hash = <<"bulk", [i \in 1..Len(BatchMessages) |-> MarshalSSZ(BatchMessages[i])]>>
        /\ out.log[k].arg.signature = call.signed.Signature
        /\ out.log[k].arg.verdict = verdict
        /\ verdict = VerifySignedMessageByOwner(call.client, out.log[k].arg.owner,
                                                out.log[k].arg.hash, out.log[k].arg.signature)

\* ----------------------------------------------------------------- claims
OwnerMatches == call.signedProof.Proof.Owner = call.ownerAddress

ValidatorMatches == call.signedProof.Proof.ValidatorPubKey = call.validatorPK

KeyParses == \E k \in KeyIds : KeyBytes(k) = call.operator.PubKey

SignatureVerifies ==
    \E k \in KeyIds :
        /\ KeyBytes(k) = call.operator.PubKey
        /\ call.signedProof.Signature = SignRSA(k, HashTreeRoot(call.signedProof.Proof))

\* C1 (as stated): ValidateCeremonyProof succeeds iff the proof's owner and
\* validator public key equal the expected ones and the signature verifies
\* against the operator's public key; when exactly one of the three fails the
\* error is the owner mismatch, the validator public key mismatch or the
\* invalid signature error respectively.
C1_SpecificErrorAsStated ==
    call.kind = "ValidateCeremonyProof" =>
        /\ (out.err = Nil) <=> (OwnerMatches /\ ValidatorMatches /\ SignatureVerifies)
        /\ (~OwnerMatches /\ ValidatorMatches /\ SignatureVerifies)
               => out.err = "invalid owner address"
        /\ (OwnerMatches /\ ~ValidatorMatches /\ SignatureVerifies)
               => out.err = "invalid proof validator pubkey"
        /\ (OwnerMatches /\ ValidatorMatches /\ ~SignatureVerifies)
               => out.err = "InvalidSignature"

\* C1 (amended): as above, except that when only the signature condition
\* fails the error is the invalid signature error if the operator's public
\* key parses, and the decode error of the key if it does not.
C1_ProofBinding ==
    call.kind = "ValidateCeremonyProof" =>
        /\ (out.err = Nil) <=> (OwnerMatches /\ ValidatorMatches /\ SignatureVerifies)
        /\ (~OwnerMatches /\ ValidatorMatches /\ SignatureVerifies)
               => out.err = "invalid owner address"
        /\ (OwnerMatches /\ ~ValidatorMatches /\ SignatureVerifies)
               => out.err = "invalid proof validator pubkey"
        /\ (OwnerMatches /\ ValidatorMatches /\ ~SignatureVerifies)
               => out.err = IF KeyParses THEN "InvalidSignature" ELSE "DecodeError"

C1_Witness ==
    /\ call.kind = "ValidateCeremonyProof"
    /\ OwnerMatches /\ ValidatorMatches /\ ~KeyParses
    /\ out.err = "DecodeError"

\* C2: a SignedProof returned by Init verifies under the invoking operator's
\* public key (Init signs the payload VerifyCeremonyProof checks, the proof's
\* structural hash) and its proof carries the Init message's owner.
C2_InitProofVerifies ==
    (call.kind = "Init" /\ out.err = Nil /\ KeyBytes(call.sk) = call.op.PubKey) =>
        /\ Len(out.results) = 1
        /\ out.results[1].SignedProof.Proof.Owner = call.init.Owner
        /\ out.results[1].SignedProof.Signature =
               SignRSA(call.sk, HashTreeRoot(out.results[1].SignedProof.Proof))
        /\ VerifyCeremonyProof(call.op.PubKey, out.results[1].SignedProof) = Nil

\* C3: Reshare and Resign are fail-fast with no partial output: in an
\* authorized batch, when message i is the first one that fails, the call
\* ends with that message's error and no Result, whatever the earlier
\* messages produced; and no failed call returns a Result.
C3_FailFast ==
    IsBatchCall =>
        /\ out.err # Nil => out.results = <<>>
        /\ \A i \in 1..Len(BatchMessages) :
               (/\ OracleAnswered(Nil)
                /\ StepOf(i).err # Nil
                /\ \A j \in 1..(i - 1) : StepOf(j).err = Nil)
               => (out.err = StepOf(i).err /\ out.results = <<>>)

C3_Witness ==
    /\ call.kind = "Reshare"
    /\ Len(BatchMessages) = 2
    /\ OracleAnswered(Nil)
    /\ StepOf(1).err = Nil
    /\ StepOf(2).err = "InvalidSignature"
    /\ out.err = "InvalidSignature"
    /\ out.results = <<>>

\* C4: Reshare and Resign return Results only when the oracle accepted the
\* batch signature for the first message's owner and the bulk hash of all
\* messages in order; when the oracle rejects, the call fails with the
\* unauthorized-batch error and returns no Result.
C4_AuthorizedOnly ==
    IsBatchCall =>
        /\ out.results # <<>> => OracleAnswered(Nil)
        /\ out.err = Nil => OracleAnswered(Nil)
        /\ (/\ BatchMessages # <<>>
            /\ VerifySignedMessageByOwner(call.client, MessageOwner(1),
                                          GetBulkMessageHash(BatchMessages).hash,
                                          call.signed.Signature) = "UnauthorizedBatch")
           => (out.err = "UnauthorizedBatch" /\ out.results = <<>>)

C4_Witness ==
    /\ call.kind = "Reshare"
    /\ BatchMessages # <<>>
    /\ call.signed.Signature.flipped
    /\ call.client = "up"
    /\ OracleAnswered("UnauthorizedBatch")
    /\ out.err = "UnauthorizedBatch"
    /\ out.results = <<>>

\* C5: whenever Reshare or Resign returns successfully, every message of the
\* batch carries the owner of the first message, the owner the single
\* authorization check was made against.
C5_SingleOwner ==
    (IsBatchCall /\ out.err = Nil) =>
        \A i \in 1..Len(BatchMessages) : MessageOwner(i) = MessageOwner(1)

\* C6: when Resign processes a message whose operator sequence excludes the
\* invoking operator's ID, the call fails with the operator-not-found error
\* whatever the attached proofs are, and no proof of that message is checked.
C6_ResignMembership ==
    call.kind = "Resign" =>
        \A i \in 1..Len(BatchMessages) :
            (/\ \A k \in 1..Len(BatchMessages[i].Operators) :
                    BatchMessages[i].Operators[k].ID # call.op.ID
             /\ OracleAnswered(Nil)
             /\ \A j \in 1..(i - 1) : StepOf(j).err = Nil)
            => /\ out.err = "operator not found in the list"
               /\ out.results = <<>>
               /\ Logged("Find", i)
               /\ ~Logged("Validate", i)

C6_Witness ==
    /\ call.kind = "Resign"
    /\ Len(BatchMessages) = 2
    /\ OracleAnswered(Nil)
    /\ StepOf(1).err = Nil
    /\ \A k \in 1..Len(BatchMessages[2].Operators) :
           BatchMessages[2].Operators[k].ID # call.op.ID
    /\ BatchMessages[2].Proofs[1].Signature.key # BatchMessages[2].Operators[1].ID
    /\ out.err = "operator not found in the list"

\* C7: a Reshare or Resign batch with zero messages fails with the
\* empty-batch error before any bulk hash is computed and before the oracle
\* is consulted, and returns no Result.
C7_EmptyBatch ==
    (IsBatchCall /\ BatchMessages = <<>>) =>
        /\ out.err = "no reshare messages"
        /\ out.results = <<>>
        /\ out.log = <<>>

C7_Witness ==
    /\ call.kind = "Resign"
    /\ BatchMessages = <<>>
    /\ out.err = "no reshare messages"
    /\ out.log = <<>>

EndsWithSlash(addr) == addr # <<>> /\ addr[Len(addr)] = "/"

ProofRoundTrip ==
    call.kind = "ProofUnmarshalJSON" =>
        \A p \in JSONProofs :
            call.data = JSONText(ProofMarshalJSON(p)) => (out.err = Nil /\ dst = p)

SignedProofRoundTrip ==
    call.kind = "SignedProofUnmarshalJSON" =>
        \A sp \in JSONSignedProofs :
            call.data = JSONText(SignedProofMarshalJSON(sp)) => (out.err = Nil /\ dst = sp)

\* C8 (as stated): MarshalJSON followed by UnmarshalJSON yields a value
\* equal to the original field for field, for every valid Proof, SignedProof
\* and Operator, an Operator whose address ends with '/' included.
C8_RoundTripAsStated ==
    /\ ProofRoundTrip
    /\ SignedProofRoundTrip
    /\ call.kind = "OperatorUnmarshalJSON" =>
           \A op \in JSONOperators :
               call.data = JSONText(OperatorMarshalJSON(op)) => (out.err = Nil /\ dst = op)

\* C8 (amended): the round trip yields the original for every valid Proof
\* and SignedProof and for every Operator whose address does not end with
\* '/'; an Operator whose address ends with '/' comes back with its ID and
\* public key and with the address stripped of all its trailing '/'.
C8_RoundTrip ==
    /\ ProofRoundTrip
    /\ SignedProofRoundTrip
    /\ call.kind = "OperatorUnmarshalJSON" =>
           \A op \in JSONOperators :
               call.data = JSONText(OperatorMarshalJSON(op)) =>
                   /\ out.err = Nil
                   /\ dst.ID = op.ID
                   /\ dst.PubKey = op.PubKey
                   /\ ~EndsWithSlash(op.Addr) => dst.Addr = op.Addr
                   /\ ~EndsWithSlash(dst.Addr)
                   /\ Len(dst.Addr) <= Len(op.Addr)
                   /\ dst.Addr = SubSeq(op.Addr, 1, Len(dst.Addr))
                   /\ \A j \in (Len(dst.Addr) + 1)..Len(op.Addr) : op.Addr[j] = "/"

C8_Witness ==
    /\ call.kind = "OperatorUnmarshalJSON"
    /\ call.data.ok
    /\ call.data.obj.ip = <<"h", "/", "/">>
    /\ out.err = Nil
    /\ dst.Addr = <<"h">>

\* C9: decoding a Proof whose hex-decoded owner is not exactly 20 bytes long
\* fails, for every length other than 20, with the owner length error when
\* nothing else is wrong; a decode succeeds only with an owner of 20 bytes,
\* which it stores.
C9_OwnerLength ==
    (/\ call.kind = "ProofUnmarshalJSON"
     /\ call.data.ok
     /\ DecodeString(call.data.obj.owner).err = Nil) =>
        LET owner == DecodeString(call.data.obj.owner).bytes
            othersDecode ==
                /\ DecodeString(call.data.obj.validator).err = Nil
                /\ DecodeString(call.data.obj.encrypted_share).err = Nil
                /\ DecodeString(call.data.obj.share_pub).err = Nil
        IN /\ Len(owner) # 20 => out.err # Nil
           /\ (Len(owner) # 20 /\ othersDecode) => out.err = "invalid owner length"
           /\ (Len(owner) = 20 /\ othersDecode) => (out.err = Nil /\ dst.Owner = owner)
           /\ out.err = Nil => (Len(owner) = 20 /\ dst.Owner = owner)

C9_Witness ==
    /\ call.kind = "ProofUnmarshalJSON"
    /\ call.data.ok
    /\ DecodeString(call.data.obj.owner).err = Nil
    /\ Len(DecodeString(call.data.obj.owner).bytes) = 19
    /\ out.err = "invalid owner length"

\* C10: a failure of the oracle reaches the caller of Reshare and Resign
\* unchanged: a rejection as the unauthorized-batch error, a transport
\* failure as the distinct oracle-unavailable error; neither becomes a
\* success and in both cases no Result is returned.
C10_OracleFailure ==
    (IsBatchCall /\ BatchMessages # <<>>) =>
        /\ call.client = "down"
               => (out.err = "OracleUnavailable" /\ out.results = <<>>)
        /\ (call.client = "up" /\ call.signed.Signature #
                OwnerSign(MessageOwner(1), GetBulkMessageHash(BatchMessages).hash))
               => (out.err = "UnauthorizedBatch" /\ out.results = <<>>)
        /\ \A k \in 1..Len(out.log) :
               (out.log[k].ev = "Oracle" /\ out.log[k].arg.verdict # Nil)
               => (out.err = out.log[k].arg.verdict /\ out.results = <<>>)

C10_Witness ==
    /\ call.kind = "Resign"
    /\ BatchMessages # <<>>
    /\ call.client = "down"
    /\ OracleAnswered("OracleUnavailable")
    /\ out.err = "OracleUnavailable"
    /\ out.results = <<>>

\* ------------------------------------------------------ reading the log
\* the place in the log of step `name` of message i (0 when it is not there)
IndexOf(name, i) ==
    IF Logged(name, i)
    THEN CHOOSE k \in 1..Len(out.log) : out.log[k].ev = name /\ out.log[k].i = i
    ELSE 0

\* step `name` of message i ran and ended without error
Succeeded(name, i) == Logged(name, i) /\ out.log[IndexOf(name, i)].arg = Nil

InOldOperators(i) ==
    \E k \in 1..Len(BatchMessages[i].Reshare.OldOperators) :
        BatchMessages[i].Reshare.OldOperators[k].ID = call.op.ID

\* the place of the invoking operator in the old operators, counted from 1
OldPosition(i) ==
    CHOOSE k \in 1..Len(BatchMessages[i].Reshare.OldOperators) :
        BatchMessages[i].Reshare.OldOperators[k].ID = call.op.ID

\* C11: in Reshare, for a message whose old operators include the invoking
\* operator, a Result is built only after the proof at the operator's
\* position passed ValidateCeremonyProof against the message's owner and
\* validator public key; for a message whose old operators do not include
\* it, no proof is checked and the processing of the message goes on.
C11_ReshareOldOperatorProof ==
    call.kind = "Reshare" =>
        \A i \in 1..Len(BatchMessages) :
            /\ (InOldOperators(i) /\ Succeeded("Build", i)) =>
                   /\ OldPosition(i) <= Len(BatchMessages[i].Proofs)
                   /\ ValidateCeremonyProof(BatchMessages[i].Reshare.Owner,
                                            BatchMessages[i].Reshare.ValidatorPubKey,
                                            call.op,
                                            BatchMessages[i].Proofs[OldPosition(i)]) = Nil
                   /\ Succeeded("Validate", i)
                   /\ IndexOf("Validate", i) < IndexOf("Build", i)
            /\ (~InOldOperators(i) /\ Logged("Find", i)) =>
                   /\ ~Logged("Validate", i)
                   /\ Logged("ReqID", i)
                   /\ Logged("Build", i)

C11_Witness ==
    /\ call.kind = "Reshare"
    /\ Len(BatchMessages) = 2
    /\ InOldOperators(1)
    /\ OldPosition(1) = 2
    /\ Succeeded("Validate", 1)
    /\ Succeeded("Build", 1)
    /\ ~InOldOperators(2)
    /\ ~Logged("Validate", 2)
    /\ Succeeded("Build", 2)
    /\ Len(out.results) = 2

OracleCalls == {k \in 1..Len(out.log) : out.log[k].ev = "Oracle"}

\* C12: in Reshare and Resign the batch is authorized before any step on a
\* message: every step on a message comes after the oracle accepted the
\* batch, an unauthorized batch fails with the authorization error whatever
\* its messages are, and the oracle is consulted exactly once per non-empty
\* call.
C12_AuthorizationFirst ==
    (IsBatchCall /\ BatchMessages # <<>>) =>
        /\ Cardinality(OracleCalls) = 1
        /\ \A k \in 1..Len(out.log) :
               out.log[k].i >= 1 =>
                   \E j \in 1..(k - 1) :
                       out.log[j].ev = "Oracle" /\ out.log[j].arg.verdict = Nil
        /\ VerifySignedMessageByOwner(call.client, MessageOwner(1),
                                      GetBulkMessageHash(BatchMessages).hash,
                                      call.signed.Signature) # Nil
           => /\ out.err \in {"UnauthorizedBatch", "OracleUnavailable"}
              /\ \A k \in 1..Len(out.log) : out.log[k].i = 0

C12_Witness ==
    /\ call.kind = "Resign"
    /\ Len(BatchMessages) = 1
    /\ \A k \in 1..Len(BatchMessages[1].Operators) :
           BatchMessages[1].Operators[k].ID # call.op.ID
    /\ BatchMessages[1].Proofs[1].Signature.key # BatchMessages[1].Operators[1].ID
    /\ call.client = "up"
    /\ call.signed.Signature.flipped
    /\ out.err = "UnauthorizedBatch"
    /\ ~Logged("Find", 1)
    /\ Cardinality(OracleCalls) = 1

\* Init signs only after ValidateInitMessage succeeded
InitValidatedBeforeSigned ==
    call.kind = "Init" =>
        /\ \A name \in {"SignDeposit", "Encrypt", "SignProof"} :
               Logged(name, 1) =>
                   (Succeeded("Validate", 1) /\ IndexOf("Validate", 1) < IndexOf(name, 1))
        /\ out.err # Nil => out.results = <<>>
        /\ out.err = Nil => (Logged("SignProof", 1) /\ Len(out.results) = 1)

ValidatedBeforeBuilt(i) ==
    /\ Succeeded("Validate", i)
    /\ IndexOf("Validate", i) < IndexOf("Build", i)

\* a failure gives an error and no Result; a success one Result per message,
\* each built
BatchResulted ==
    /\ out.err # Nil => out.results = <<>>
    /\ out.err = Nil =>
           /\ Len(out.results) = Len(BatchMessages)
           /\ \A i \in 1..Len(BatchMessages) : Succeeded("Build", i)

\* C13 (as stated): each message goes through Received, Validated, Signed,
\* Resulted in that order with no step skipped: in Init, Reshare and Resign
\* nothing is signed for a message before its validation step succeeded, and
\* a failure gives an error and no Result.
C13_ValidatedBeforeSignedAsStated ==
    /\ InitValidatedBeforeSigned
    /\ IsBatchCall =>
           /\ \A i \in 1..Len(BatchMessages) : Logged("Build", i) => ValidatedBeforeBuilt(i)
           /\ BatchResulted

\* C13 (amended): as stated for Init, for Resign and for the Reshare
\* messages whose old operators include the invoking operator; a Reshare
\* message whose old operators do not include it has no validation step and
\* is signed right after the position lookup and the request ID.
C13_ValidatedBeforeSigned ==
    /\ InitValidatedBeforeSigned
    /\ IsBatchCall =>
           /\ \A i \in 1..Len(BatchMessages) :
                  Logged("Build", i) =>
                      IF call.kind = "Resign" \/ InOldOperators(i)
                      THEN ValidatedBeforeBuilt(i)
                      ELSE /\ ~Logged("Validate", i)
                           /\ Logged("Find", i)
                           /\ IndexOf("Find", i) < IndexOf("Build", i)
           /\ BatchResulted

C13_Witness ==
    /\ call.kind = "Reshare"
    /\ Len(BatchMessages) = 1
    /\ ~InOldOperators(1)
    /\ ~Logged("Validate", 1)
    /\ Succeeded("Build", 1)
    /\ out.err = Nil
    /\ Len(out.results) = 1

\* C14: ValidateCeremonyProof compares the owner, then the validator public
\* key, then verifies the signature: an owner mismatch gives the owner error
\* whatever the validator public key, the operator key and the signature
\* are; a validator public key mismatch under a matching owner gives the
\* validator public key error whatever the operator key and the signature
\* are; an error of key parsing or of signature verification is returned
\* only when both comparisons passed.
C14_CheckOrder ==
    call.kind = "ValidateCeremonyProof" =>
        /\ ~OwnerMatches => out.err = "invalid owner address"
        /\ (OwnerMatches /\ ~ValidatorMatches) => out.err = "invalid proof validator pubkey"
        /\ out.err \notin {Nil, "invalid owner address", "invalid proof validator pubkey"}
               => (OwnerMatches /\ ValidatorMatches)

C14_Witness ==
    /\ call.kind = "ValidateCeremonyProof"
    /\ ~OwnerMatches
    /\ ~ValidatorMatches
    /\ ~KeyParses
    /\ out.err = "invalid owner address"

\* C15: a successful Reshare or Resign returns one Result per message of the
\* batch, in message order: as many Results as messages, the i-th carrying
\* the invoking operator's ID and the request ID of the i-th message.
C15_OneResultPerMessage ==
    (IsBatchCall /\ out.err = Nil) =>
        /\ Len(out.results) = Len(BatchMessages)
        /\ \A i \in 1..Len(BatchMessages) :
               /\ out.results[i].OperatorID = call.op.ID
               /\ out.results[i].RequestID = GetReqIDFromMsg(BatchMessages[i]).id

C15_Witness ==
    /\ call.kind = "Resign"
    /\ out.err = Nil
    /\ Len(BatchMessages) = 2
    /\ BatchMessages[1] # BatchMessages[2]
    /\ Len(out.results) = 2
    /\ out.results[1].RequestID # out.results[2].RequestID

\* the same batch, with the same oracle, processed by another operator with
\* its own ID, key and share
ProcessedBy(op, share) ==
    IF call.kind = "Reshare"
    THEN Reshare(op, call.signed, op.ID, call.client, share)
    ELSE Resign(op, call.signed, share, op.ID, call.client)

SameRequestIDs(other) ==
    /\ Len(other.results) = Len(out.results)
    /\ \A i \in 1..Len(out.results) : other.results[i].RequestID = out.results[i].RequestID

ProofCount(i) == Len(BatchMessages[i].Proofs)

\* C17: Reshare and Resign never read a proof outside a message's proof
\* sequence: the position at which the invoking operator is found in a
\* message's operator sequence is an index into that message's proofs, also
\* when the proofs are fewer than the operators, and no call ends in an
\* index-out-of-range panic.
C17_ProofIndexInBounds ==
    IsBatchCall =>
        /\ out.err # "PanicIndexOutOfRange"
        /\ \A k \in 1..Len(out.log) :
               (out.log[k].ev = "Find" /\ out.log[k].arg # -1)
               => out.log[k].arg < ProofCount(out.log[k].i)

InNewOperators(i) ==
    \E k \in 1..Len(BatchMessages[i].Reshare.NewOperators) :
        BatchMessages[i].Reshare.NewOperators[k].ID = call.op.ID

\* C18: Reshare builds a Result for a message only when the invoking
\* operator is among the message's old operators or among its new
\* operators; an operator named in neither gets no Result for the message.
C18_ReshareMembership ==
    call.kind = "Reshare" =>
        /\ \A i \in 1..Len(BatchMessages) :
               Succeeded("Build", i) => (InOldOperators(i) \/ InNewOperators(i))
        /\ out.err = Nil =>
               \A i \in 1..Len(BatchMessages) : InOldOperators(i) \/ InNewOperators(i)

\* C19: a failed Proof decode leaves the destination as it was: when
\* UnmarshalJSON returns an error, the validator public key, the encrypted
\* share, the share public key and the owner of the destination are the
\* ones it held before the call.
C19_FailedDecodeFrame ==
    (call.kind = "ProofUnmarshalJSON" /\ out.err # Nil) =>
        /\ dst.ValidatorPubKey = call.dst.ValidatorPubKey
        /\ dst.EncryptedShare = call.dst.EncryptedShare
        /\ dst.SharePubKey = call.dst.SharePubKey
        /\ dst.Owner = call.dst.Owner

====
